---- MODULE Spec2Model ----
(***************************************************************************)
(* Section-Swap-KIIT: the swap-matching engine of src/server.js.           *)
(*                                                                         *)
(* The students table is the shared state.  The request handlers           *)
(* /api/find-swap, /api/find-all-swaps, /api/profile (PUT) and             *)
(* /api/update-section are the operations; findMultiStepSwap and           *)
(* findSwapCycle are the rotation search they call.                        *)
(*                                                                         *)
(* Section names are texts (the fixture's '10', '20', '30'; '28' in        *)
(* /api/debug-swaps).  The model numbers them 1..NumSections; every        *)
(* section is named by one character except the last one, whose name is    *)
(* the two characters that name sections 1 and 2 (sections "1", "2" and    *)
(* "12"), so that String.prototype.includes and for..of on a bare JSON     *)
(* string behave as they do on text.                                       *)
(***************************************************************************)
EXTENDS Integers, Sequences, FiniteSets, TLC

\* ---------------------------------------------------------------- bounds
NumStudents == 3
NumSections == 3
MaxLen == 2
MaxUpdates == 2
NumClients == 3
CrowdExtra == 2

\* ------------------------------------------------------ program constants
MAX_CANDIDATES == 5
MAX_SWAP_LENGTH == 5

Students == 1..NumStudents
Sections == 1..NumSections
Batches == {"B1", "B2"}
\* batch IS NULL (register stores null when no batch is given or detected)
NoBatch == "NULL"
\* req.body.desiredSection absent (or falsy)
NoTarget == 0

\* ------------------------------------------------ stored desired_sections
\* The TEXT column desired_sections, by what JSON.parse makes of it:
\*   "null"   the column is NULL or the empty text (falsy in JavaScript)
\*   "bad"    text that JSON.parse rejects (the migrated desired_section)
\*   "scalar" JSON that parses to a value without an includes method
\*            (a number, a boolean, null, an object)
\*   "str"    a bare JSON string; items = <<s>>, the text is section name s
\*   "list"   a JSON array; items = its elements in order
DesNull == [kind |-> "null", items |-> <<>>]
DesBad == [kind |-> "bad", items |-> <<>>]
DesScalar == [kind |-> "scalar", items |-> <<>>]
DesStr(s) == [kind |-> "str", items |-> <<s>>]
DesList(l) == [kind |-> "list", items |-> l]

SeqsUpTo(n) == UNION {[1..k -> Sections] : k \in 0..n}
ListsOfSections == {l \in SeqsUpTo(MaxLen) : \A i, j \in DOMAIN l : i # j => l[i] # l[j]}

\* JSON.stringify(desiredSections || []) of a request body: always valid JSON
StringifiedDesired == {DesList(l) : l \in ListsOfSections} \cup {DesStr(s) : s \in Sections} \cup {DesScalar}

\* `if (!x.desired_sections)`
Truthy(d) == d.kind # "null"
\* JSON.parse(text) returns (does not throw)
Parses(d) == d.kind \in {"scalar", "str", "list"}
\* Array.isArray(JSON.parse(text))
IsArray(d) == d.kind = "list"
\* JSON.parse(text).includes exists (Array.prototype / String.prototype)
HasIncludes(d) == d.kind \in {"str", "list"}
\* the name of section a occurs in the name of section b
SubstringOf(a, b) == a = b \/ (b = NumSections /\ a \in {1, 2})
\* the characters of the name of section s
CharsOf(s) == IF s = NumSections THEN <<1, 2>> ELSE <<s>>
\* JSON.parse(text).includes(s): Array.prototype.includes on a list,
\* String.prototype.includes on a bare string
Includes(d, s) ==
    IF d.kind = "str" THEN SubstringOf(s, d.items[1])
    ELSE \E i \in DOMAIN d.items : d.items[i] = s
\* what for..of (and indexing) over JSON.parse(text) visits
Elements(d) ==
    IF d.kind = "str" THEN CharsOf(d.items[1]) ELSE d.items


\* ------------------------------------------------------------- the tables
VARIABLES
    pool,       \* students table: id -> [cur, des, batch]
    rows,       \* storage order of the students rows (no query has ORDER BY)
    history,    \* swap_history table, in insertion order
    nUpdates,   \* number of writes so far (bounds the exploration)
    response,   \* the response of the request handled last
    requests,   \* swap_requests table, in insertion order
    inflight    \* the requests being handled query by query, one per client

vars == <<pool, rows, history, nUpdates, response, requests, inflight>>

\* a row as a SELECT returns it
RowOf(p, id) == [id |-> id, cur |-> p[id].cur, des |-> p[id].des, batch |-> p[id].batch]
NoRow == [id |-> 0, cur |-> 0, des |-> DesNull, batch |-> NoBatch]
AllRows(p, ord) == [i \in DOMAIN ord |-> RowOf(p, ord[i])]

\* the first k elements: Array.prototype.slice(0, k)
Slice(seq, k) == IF Len(seq) <= k THEN seq ELSE SubSeq(seq, 1, k)

\* F of the first element of seq for which F is not <<>> (a loop that
\* returns from inside its body), <<>> when there is none
FirstHit(seq, F(_)) ==
    LET hits == {i \in DOMAIN seq : F(seq[i]) # <<>>}
    IN  IF hits = {} THEN <<>>
        ELSE F(seq[CHOOSE i \in hits : \A j \in hits : i <= j])

\* ---------------------------------------------------------- direct check
\* (variant: the batch is not compared)
DirectSwapPartnersQueryAnyBatch(p, ord, targetSection, id, batch) ==
    SelectSeq(AllRows(p, ord), LAMBDA r : r.cur = targetSection /\ r.id # id)

\* (variant: a student already named as the partner of an answered direct
\* plan is left out)
DirectSwapPartnersQueryUnclaimed(p, ord, targetSection, id, batch) ==
    SelectSeq(AllRows(p, ord),
              LAMBDA r : /\ r.cur = targetSection /\ r.id # id /\ r.batch = batch
                         /\ \A c \in DOMAIN inflight :
                               inflight[c].plan.type = "direct"
                                   => inflight[c].plan.partner.id # r.id)

\* SELECT ... WHERE current_section = ? AND id != ? AND batch = ?
DirectSwapPartnersQuery(p, ord, targetSection, id, batch) ==
    SelectSeq(AllRows(p, ord),
              LAMBDA r : r.cur = targetSection /\ r.id # id /\ r.batch = batch)

\* the callback of directSwapPartners.find / .filter
PartnerWants(partner, currentSection) ==
    /\ Truthy(partner.des)
    /\ Parses(partner.des)
    /\ HasIncludes(partner.des)
    /\ Includes(partner.des, currentSection)

\* directSwapPartners.filter(...)
DirectPartners(partners, currentSection) ==
    SelectSeq(partners, LAMBDA r : PartnerWants(r, currentSection))

\* (variant: the search starts behind the first row)
DirectPartnerFromSecond(partners, currentSection) ==
    LET found == DirectPartners(Tail(partners), currentSection)
    IN  IF Len(partners) = 0 \/ Len(found) = 0 THEN NoRow ELSE found[1]

\* directSwapPartners.find(...): the first one, NoRow for undefined
DirectPartner(partners, currentSection) ==
    LET found == DirectPartners(partners, currentSection)
    IN  IF Len(found) = 0 THEN NoRow ELSE found[1]

\* ------------------------------------------------------- rotation search
\* (variant: from and to exchanged)
StepReversed(from, to, student, isCurrentUser) ==
    [from |-> to, to |-> from, student |-> student, isCurrentUser |-> isCurrentUser]

Step(from, to, student, isCurrentUser) ==
    [from |-> from, to |-> to, student |-> student, isCurrentUser |-> isCurrentUser]

\* (variant: slice(MAX_CANDIDATES) for slice(0, MAX_CANDIDATES))
GetCandidatesBehindCap(students, fromSection, toSection, excludeSections) ==
    LET candidates ==
          SelectSeq(students,
                    LAMBDA s : /\ s.cur = fromSection
                               /\ s.cur \notin excludeSections
                               /\ (toSection = NoTarget \/ Includes(s.des, toSection)))
    IN  IF Len(candidates) <= MAX_CANDIDATES THEN <<>>
        ELSE SubSeq(candidates, MAX_CANDIDATES + 1, Len(candidates))

\* (variant: the occupant test is missing)
GetCandidatesAnywhere(students, fromSection, toSection, excludeSections) ==
    Slice(SelectSeq(students,
                    LAMBDA s : /\ s.cur \notin excludeSections
                               /\ (toSection = NoTarget \/ Includes(s.des, toSection))),
          MAX_CANDIDATES)

\* getCandidates(fromSection, toSection, excludeSections); toSection = NoTarget
\* stands for null
GetCandidates(students, fromSection, toSection, excludeSections) ==
    Slice(SelectSeq(students,
                    LAMBDA s : /\ s.cur = fromSection
                               /\ s.cur \notin excludeSections
                               /\ (toSection = NoTarget \/ Includes(s.des, toSection))),
          MAX_CANDIDATES)

\* JSON.parse(currentUser.desired_sections || '[]') or the includes call on
\* it throws
UserDesiredThrows(currentUser) == currentUser.des.kind \in {"bad", "scalar"}

\* the elements a for..of over userDesiredSections visits ('[]' for a
\* falsy column)
UserDesiredSections(currentUser) == Elements(currentUser.des)

\* (variant: the partner's step does not lead back to the start)
Chain2Open(students, startSection, targetSection, currentUser) ==
    LET directCandidates == GetCandidates(students, targetSection, startSection, {})
    IN  IF Len(directCandidates) > 0
        THEN << Step(startSection, targetSection, currentUser, TRUE),
                Step(targetSection, targetSection, directCandidates[1], FALSE) >>
        ELSE <<>>

\* (variant: length 2 is not tried)
Chain2Skipped(students, startSection, targetSection, currentUser) == <<>>

Chain2(students, startSection, targetSection, currentUser) ==
    LET directCandidates == GetCandidates(students, targetSection, startSection, {})
    IN  IF Len(directCandidates) > 0
        THEN << Step(startSection, targetSection, currentUser, TRUE),
                Step(targetSection, startSection, directCandidates[1], FALSE) >>
        ELSE <<>>

Chain3(students, startSection, targetSection, currentUser) ==
    FirstHit(UserDesiredSections(currentUser), LAMBDA desiredA :
      IF desiredA = startSection \/ desiredA = targetSection THEN <<>>
      ELSE FirstHit(GetCandidates(students, desiredA, targetSection, {startSection}),
             LAMBDA studentA :
               LET candidatesTarget ==
                     GetCandidates(students, targetSection, startSection, {desiredA})
               IN  IF Len(candidatesTarget) > 0
                   THEN << Step(startSection, desiredA, currentUser, TRUE),
                           Step(desiredA, targetSection, studentA, FALSE),
                           Step(targetSection, startSection, candidatesTarget[1], FALSE) >>
                   ELSE <<>>))

Chain4(students, startSection, targetSection, currentUser) ==
    FirstHit(UserDesiredSections(currentUser), LAMBDA desiredA :
      IF desiredA = startSection \/ desiredA = targetSection THEN <<>>
      ELSE FirstHit(Slice(GetCandidates(students, desiredA, NoTarget, {startSection}),
                          MAX_CANDIDATES),
             LAMBDA studentA :
               FirstHit(studentA.des.items, LAMBDA desiredB :
                 IF desiredB = startSection \/ desiredB = targetSection \/ desiredB = desiredA
                 THEN <<>>
                 ELSE FirstHit(GetCandidates(students, desiredB, targetSection,
                                             {startSection, desiredA}),
                        LAMBDA studentB :
                          LET candidatesTarget ==
                                GetCandidates(students, targetSection, startSection,
                                              {desiredA, desiredB})
                          IN  IF Len(candidatesTarget) > 0
                              THEN << Step(startSection, desiredA, currentUser, TRUE),
                                      Step(desiredA, desiredB, studentA, FALSE),
                                      Step(desiredB, targetSection, studentB, FALSE),
                                      Step(targetSection, startSection,
                                           candidatesTarget[1], FALSE) >>
                              ELSE <<>>))))

Chain5(students, startSection, targetSection, currentUser) ==
    FirstHit(UserDesiredSections(currentUser), LAMBDA desiredA :
      IF desiredA = startSection \/ desiredA = targetSection THEN <<>>
      ELSE FirstHit(Slice(GetCandidates(students, desiredA, NoTarget, {startSection}),
                          MAX_CANDIDATES),
             LAMBDA studentA :
               FirstHit(studentA.des.items, LAMBDA desiredB :
                 IF desiredB = startSection \/ desiredB = targetSection \/ desiredB = desiredA
                 THEN <<>>
                 ELSE FirstHit(Slice(GetCandidates(students, desiredB, NoTarget,
                                                   {startSection, desiredA}),
                                     MAX_CANDIDATES),
                        LAMBDA studentB :
                          FirstHit(studentB.des.items, LAMBDA desiredC :
                            IF \/ desiredC = startSection \/ desiredC = targetSection
                               \/ desiredC = desiredA \/ desiredC = desiredB
                            THEN <<>>
                            ELSE FirstHit(GetCandidates(students, desiredC, targetSection,
                                                        {startSection, desiredA, desiredB}),
                                   LAMBDA studentC :
                                     LET candidatesTarget ==
                                           GetCandidates(students, targetSection,
                                                         startSection,
                                                         {desiredA, desiredB, desiredC})
                                     IN  IF Len(candidatesTarget) > 0
                                         THEN << Step(startSection, desiredA, currentUser, TRUE),
                                                 Step(desiredA, desiredB, studentA, FALSE),
                                                 Step(desiredB, desiredC, studentB, FALSE),
                                                 Step(desiredC, targetSection, studentC, FALSE),
                                                 Step(targetSection, startSection,
                                                      candidatesTarget[1], FALSE) >>
                                         ELSE <<>>))))))

ChainOfLength(swapLength, students, startSection, targetSection, currentUser) ==
    CASE swapLength = 2 -> Chain2(students, startSection, targetSection, currentUser)
      [] swapLength = 3 -> Chain3(students, startSection, targetSection, currentUser)
      [] swapLength = 4 -> Chain4(students, startSection, targetSection, currentUser)
      [] swapLength = 5 -> Chain5(students, startSection, targetSection, currentUser)
      [] OTHER -> <<>>

\* findSwapCycle(startSection, targetSection, students, maxDepth, currentUser)
\* where it does not throw; <<>> stands for null.  maxDepth is never read.
FindSwapCycle(startSection, targetSection, students, currentUser) ==
    IF currentUser = NoRow THEN <<>>
    ELSE IF ~(HasIncludes(currentUser.des) /\ Includes(currentUser.des, targetSection))
    THEN <<>>
    ELSE FirstHit([k \in 1..(MAX_SWAP_LENGTH - 1) |-> k + 1], LAMBDA swapLength :
           ChainOfLength(swapLength, students, startSection, targetSection, currentUser))

\* SELECT ... WHERE id != ? AND batch = ?   (WHERE id != ? without a batch)
OtherStudentsQuery(p, ord, excludeId, filterBatch) ==
    SelectSeq(AllRows(p, ord),
              LAMBDA r : r.id # excludeId /\ (filterBatch = NoBatch \/ r.batch = filterBatch))

\* the students.forEach that builds validStudents
ValidStudents(students) ==
    SelectSeq(students, LAMBDA s : Truthy(s.des) /\ Parses(s.des) /\ IsArray(s.des)
                                   /\ Len(s.des.items) > 0)

\* findMultiStepSwap after its two queries: currentUser is the row of the
\* first one (NoRow when it is empty), students the rows of the second
MultiStepFromRows(fromSection, toSection, currentUser, students) ==
    IF currentUser # NoRow /\ UserDesiredThrows(currentUser) THEN <<>>
    ELSE FindSwapCycle(fromSection, toSection, ValidStudents(students), currentUser)

\* findMultiStepSwap(fromSection, toSection, excludeId, batch) on one state
\* of the table
FindMultiStepSwap(p, ord, fromSection, toSection, excludeId, batch) ==
    LET currentUser == IF excludeId \in DOMAIN p THEN RowOf(p, excludeId) ELSE NoRow
        filterBatch == IF batch # NoBatch THEN batch
                       ELSE IF currentUser # NoRow THEN currentUser.batch ELSE NoBatch
    IN  MultiStepFromRows(fromSection, toSection, currentUser,
                          OtherStudentsQuery(p, ord, excludeId, filterBatch))


\* ------------------------------------------------------------- responses
\* the empty studentMatches object
NoMatches == [i \in {} |-> FALSE]

\* One shape for every response; the fields a response does not have hold
\* NoTarget, NoRow, NoBatch, NoMatches or <<>>.  searched is not sent to the
\* client: it lists the targets for which the handler issued the partner
\* query.  batch and matches are the argument and the result of
\* checkAllStudentMatches.
Response(op, user, asked, type, targetSection, partner, path, swaps) ==
    [op |-> op, user |-> user, asked |-> asked, type |-> type,
     targetSection |-> targetSection, partner |-> partner, path |-> path,
     swaps |-> swaps, searched |-> <<>>, batch |-> NoBatch, matches |-> NoMatches]

Idle == Response("idle", 0, NoTarget, "idle", NoTarget, NoRow, <<>>, <<>>)

\* no plan yet
NoPlan == [type |-> "idle", targetSection |-> NoTarget, partner |-> NoRow, path |-> <<>>]

\* A client's request while it is handled query by query.  op and pc say
\* which handler runs and which query comes next, user and arg are the
\* authenticated student and the section of the request body, student, idx
\* and cu are the handler's locals (the row fetched first, the index of the
\* target being searched, the row findMultiStepSwap fetched), plan is the
\* response.  prev and seen are not program state: the section the UPDATE
\* replaced, and the states of the table from the first query on.
ClientState(op, pc, user, arg, student, idx, cu, plan, prev, seen) ==
    [op |-> op, pc |-> pc, user |-> user, arg |-> arg, student |-> student,
     idx |-> idx, cu |-> cu, plan |-> plan, prev |-> prev, seen |-> seen]

IdleClient == ClientState("idle", "idle", 0, NoTarget, NoRow, 0, NoRow, NoPlan, NoTarget, {})

Clients == 1..NumClients
NoRequests == [c \in Clients |-> IdleClient]

\* an entry of swapResults in /api/find-all-swaps
SwapResult(type, targetSection, priority, partners, path) ==
    [type |-> type, targetSection |-> targetSection, priority |-> priority,
     partners |-> partners, path |-> path]

\* --------------------------------------------------------- /api/find-swap
\* sectionsToSearch, where computing it does not throw
SectionsToSearch(student, desiredSection) ==
    IF desiredSection # NoTarget THEN <<desiredSection>>
    ELSE Elements(student.des)

\* JSON.parse(student.desired_sections) throws, or the value it returns has
\* no length and cannot be iterated
SectionsToSearchThrows(student, desiredSection) ==
    desiredSection = NoTarget /\ student.des.kind \in {"bad", "scalar"}

\* the message of the none response calls join on the target list, which a
\* parsed bare string does not have
JoinThrows(student, desiredSection) ==
    desiredSection = NoTarget /\ student.des.kind = "str"

\* (variant: a later target with a match wins over an earlier one)
RECURSIVE SearchTargetsLastWins(_, _, _, _, _)
SearchTargetsLastWins(p, ord, student, sectionsToSearch, i) ==
    IF i > Len(sectionsToSearch)
    THEN [type |-> "none", targetSection |-> NoTarget, partner |-> NoRow, path |-> <<>>,
          searched |-> <<>>]
    ELSE LET targetSection == sectionsToSearch[i]
             later == SearchTargetsLastWins(p, ord, student, sectionsToSearch, i + 1)
         IN
         IF targetSection = student.cur THEN later
         ELSE IF later.type # "none"
         THEN [later EXCEPT !.searched = <<targetSection>> \o @]
         ELSE LET directSwapPartners ==
                      DirectSwapPartnersQuery(p, ord, targetSection, student.id, student.batch)
                  directPartner == DirectPartner(directSwapPartners, student.cur)
              IN  IF directPartner # NoRow
                  THEN [type |-> "direct", targetSection |-> targetSection,
                        partner |-> directPartner, path |-> <<>>,
                        searched |-> <<targetSection>>]
                  ELSE LET swapPath == FindMultiStepSwap(p, ord, student.cur, targetSection,
                                                         student.id, student.batch)
                       IN  IF swapPath # <<>>
                           THEN [type |-> "multi", targetSection |-> targetSection,
                                 partner |-> NoRow, path |-> swapPath,
                                 searched |-> <<targetSection>>]
                           ELSE [later EXCEPT !.searched = <<targetSection>> \o @]

\* (variant: a target equal to the current section is searched like any other)
RECURSIVE SearchTargetsNoSkip(_, _, _, _, _)
SearchTargetsNoSkip(p, ord, student, sectionsToSearch, i) ==
    IF i > Len(sectionsToSearch)
    THEN [type |-> "none", targetSection |-> NoTarget, partner |-> NoRow, path |-> <<>>,
          searched |-> <<>>]
    ELSE LET targetSection == sectionsToSearch[i]
             directSwapPartners ==
                 DirectSwapPartnersQuery(p, ord, targetSection, student.id, student.batch)
             directPartner == DirectPartner(directSwapPartners, student.cur)
         IN  IF directPartner # NoRow
             THEN [type |-> "direct", targetSection |-> targetSection,
                   partner |-> directPartner, path |-> <<>>,
                   searched |-> <<targetSection>>]
             ELSE LET swapPath == FindMultiStepSwap(p, ord, student.cur, targetSection,
                                                    student.id, student.batch)
                  IN  IF swapPath # <<>>
                      THEN [type |-> "multi", targetSection |-> targetSection,
                            partner |-> NoRow, path |-> swapPath,
                            searched |-> <<targetSection>>]
                      ELSE LET rest == SearchTargetsNoSkip(p, ord, student,
                                                           sectionsToSearch, i + 1)
                           IN  [rest EXCEPT !.searched = <<targetSection>> \o @]

\* (variant: the loop ends at a target equal to the current section)
RECURSIVE SearchTargetsStopAtOwn(_, _, _, _, _)
SearchTargetsStopAtOwn(p, ord, student, sectionsToSearch, i) ==
    IF i > Len(sectionsToSearch) \/ sectionsToSearch[i] = student.cur
    THEN [type |-> "none", targetSection |-> NoTarget, partner |-> NoRow, path |-> <<>>,
          searched |-> <<>>]
    ELSE LET targetSection == sectionsToSearch[i]
             directSwapPartners ==
                 DirectSwapPartnersQuery(p, ord, targetSection, student.id, student.batch)
             directPartner == DirectPartner(directSwapPartners, student.cur)
             swapPath == FindMultiStepSwap(p, ord, student.cur, targetSection,
                                           student.id, student.batch)
             rest == SearchTargetsStopAtOwn(p, ord, student, sectionsToSearch, i + 1)
         IN  IF directPartner # NoRow
             THEN [type |-> "direct", targetSection |-> targetSection,
                   partner |-> directPartner, path |-> <<>>,
                   searched |-> <<targetSection>>]
             ELSE IF swapPath # <<>>
             THEN [type |-> "multi", targetSection |-> targetSection,
                   partner |-> NoRow, path |-> swapPath,
                   searched |-> <<targetSection>>]
             ELSE [rest EXCEPT !.searched = <<targetSection>> \o @]

\* the for loop over sectionsToSearch from index i on, on one state of the
\* table: the plan of the first target with a match
RECURSIVE SearchTargets(_, _, _, _, _)
SearchTargets(p, ord, student, sectionsToSearch, i) ==
    IF i > Len(sectionsToSearch)
    THEN [type |-> "none", targetSection |-> NoTarget, partner |-> NoRow, path |-> <<>>,
          searched |-> <<>>]
    ELSE LET targetSection == sectionsToSearch[i] IN
         IF targetSection = student.cur
         THEN SearchTargets(p, ord, student, sectionsToSearch, i + 1)
         ELSE LET directSwapPartners ==
                      DirectSwapPartnersQuery(p, ord, targetSection, student.id, student.batch)
                  directPartner == DirectPartner(directSwapPartners, student.cur)
              IN  IF directPartner # NoRow
                  THEN [type |-> "direct", targetSection |-> targetSection,
                        partner |-> directPartner, path |-> <<>>,
                        searched |-> <<targetSection>>]
                  ELSE LET swapPath == FindMultiStepSwap(p, ord, student.cur, targetSection,
                                                         student.id, student.batch)
                       IN  IF swapPath # <<>>
                           THEN [type |-> "multi", targetSection |-> targetSection,
                                 partner |-> NoRow, path |-> swapPath,
                                 searched |-> <<targetSection>>]
                           ELSE LET rest == SearchTargets(p, ord, student,
                                                          sectionsToSearch, i + 1)
                                IN  [rest EXCEPT !.searched = <<targetSection>> \o @]

\* the whole handler on one state of the table
FindSwapResponse(p, ord, u, desiredSection) ==
    LET student == RowOf(p, u) IN
    IF student.batch = NoBatch
    THEN Response("find-swap", u, desiredSection, "error400", NoTarget, NoRow, <<>>, <<>>)
    ELSE IF SectionsToSearchThrows(student, desiredSection)
    THEN Response("find-swap", u, desiredSection, "error500", NoTarget, NoRow, <<>>, <<>>)
    ELSE LET plan == SearchTargets(p, ord, student,
                                   SectionsToSearch(student, desiredSection), 1)
         IN  [Response("find-swap", u, desiredSection,
                       IF plan.type = "none" /\ JoinThrows(student, desiredSection)
                       THEN "error500" ELSE plan.type,
                       plan.targetSection, plan.partner, plan.path, <<>>)
                 EXCEPT !.searched = plan.searched]

\* (variant: the search files a swap request for the target it was asked for)
FindSwapRecording(u, desiredSection) ==
    /\ response' = FindSwapResponse(pool, rows, u, desiredSection)
    /\ requests' = Append(requests, [requester_id |-> u, target_section |-> desiredSection,
                                     swap_type |-> "direct"])
    /\ UNCHANGED <<pool, rows, history, nUpdates, inflight>>

FindSwap(u, desiredSection) ==
    /\ response' = FindSwapResponse(pool, rows, u, desiredSection)
    /\ UNCHANGED <<pool, rows, history, nUpdates, requests, inflight>>

\* ---------------------------------------------------- /api/find-all-swaps
RECURSIVE CollectSwaps(_, _, _, _, _)
CollectSwaps(p, ord, student, desiredSections, i) ==
    IF i > Len(desiredSections) THEN <<>>
    ELSE LET targetSection == desiredSections[i] IN
         IF targetSection = student.cur
         THEN CollectSwaps(p, ord, student, desiredSections, i + 1)
         ELSE LET directPartners ==
                      DirectPartners(DirectSwapPartnersQuery(p, ord, targetSection,
                                                             student.id, student.batch),
                                     student.cur)
                  swapPath == FindMultiStepSwap(p, ord, student.cur, targetSection,
                                                student.id, student.batch)
              IN  (IF Len(directPartners) > 0
                   THEN <<SwapResult("direct", targetSection, i, directPartners, <<>>)>>
                   ELSE <<>>)
                  \o (IF swapPath # <<>>
                      THEN <<SwapResult("multi", targetSection, i, <<>>, swapPath)>>
                      ELSE <<>>)
                  \o CollectSwaps(p, ord, student, desiredSections, i + 1)

FindAllSwapsResponse(p, ord, u) ==
    LET student == RowOf(p, u) IN
    IF student.batch = NoBatch
    THEN Response("find-all-swaps", u, NoTarget, "error400", NoTarget, NoRow, <<>>, <<>>)
    ELSE IF SectionsToSearchThrows(student, NoTarget)
    THEN Response("find-all-swaps", u, NoTarget, "error500", NoTarget, NoRow, <<>>, <<>>)
    ELSE LET swapResults == CollectSwaps(p, ord, student,
                                         SectionsToSearch(student, NoTarget), 1)
         IN  Response("find-all-swaps", u, NoTarget,
                      IF Len(swapResults) = 0
                      THEN (IF JoinThrows(student, NoTarget) THEN "error500" ELSE "none")
                      ELSE "multiple",
                      NoTarget, NoRow, <<>>, swapResults)

FindAllSwaps(u) ==
    /\ response' = FindAllSwapsResponse(pool, rows, u)
    /\ UNCHANGED <<pool, rows, history, nUpdates, requests, inflight>>

\* ------------------------------------------------- checkAllStudentMatches
\* SELECT ... FROM students [WHERE batch = ?] ORDER BY roll_number; roll
\* numbers ascend with the identifiers
AllStudentsQuery(p, batch) ==
    SelectSeq(AllRows(p, [i \in Students |-> i]),
              LAMBDA r : batch = NoBatch \/ r.batch = batch)

\* (variant: the Array.isArray test is missing)
CheckValidStudentsAnyValue(allStudents) ==
    SelectSeq(allStudents, LAMBDA s : Truthy(s.des) /\ Parses(s.des)
                                      /\ HasIncludes(s.des) /\ Len(Elements(s.des)) > 0)

\* the allStudents.forEach that builds validStudents
CheckValidStudents(allStudents) ==
    SelectSeq(allStudents, LAMBDA s : Truthy(s.des) /\ Parses(s.des) /\ IsArray(s.des)
                                      /\ Len(s.des.items) > 0)

\* directMatches.length > 0 for targetSection
CheckDirectMatch(student, targetSection, validStudents) ==
    \E k \in DOMAIN validStudents :
        LET other == validStudents[k] IN
        /\ other.cur = targetSection
        /\ other.id # student.id
        /\ Includes(other.des, student.cur)

\* (variant: the 2-step check finds nothing)
CheckTwoStepMatchNever(student, targetSection, validStudents) == FALSE

\* the loops over studentsInTarget and their desired sections set hasMatch
CheckTwoStepMatch(student, targetSection, validStudents) ==
    LET otherStudents == SelectSeq(validStudents, LAMBDA s : s.id # student.id)
        studentsInTarget == SelectSeq(otherStudents, LAMBDA s : s.cur = targetSection)
    IN  \E m \in DOMAIN studentsInTarget :
            LET middleStudent == studentsInTarget[m]
                middleDesiredSections == Elements(middleStudent.des)
            IN  \E d \in DOMAIN middleDesiredSections :
                    LET middleDesired == middleDesiredSections[d] IN
                    /\ middleDesired # student.cur
                    /\ middleDesired # targetSection
                    /\ \E k \in DOMAIN otherStudents :
                          /\ otherStudents[k].cur = middleDesired
                          /\ Includes(otherStudents[k].des, student.cur)

\* hasMatch of one valid student: the loop over its desired sections
HasMatch(student, validStudents) ==
    LET desired == Elements(student.des) IN
    \E i \in DOMAIN desired :
        /\ desired[i] # student.cur
        /\ \/ CheckDirectMatch(student, desired[i], validStudents)
           \/ CheckTwoStepMatch(student, desired[i], validStudents)

\* checkAllStudentMatches(batch) on one state of the table: studentMatches
StudentMatchesOf(p, batch) ==
    LET allStudents == AllStudentsQuery(p, batch)
        validStudents == CheckValidStudents(allStudents)
        validIds == {validStudents[k].id : k \in DOMAIN validStudents}
    IN  [id \in {allStudents[k].id : k \in DOMAIN allStudents} |->
            id \in validIds /\ HasMatch(RowOf(p, id), validStudents)]

\* a call of checkAllStudentMatches: from /api/dashboard with the batch of
\* the student, from /api/student-matches without one
CheckAllStudentMatches(batch) ==
    /\ response' = [Response("check-all", 0, NoTarget, "ok", NoTarget, NoRow, <<>>, <<>>)
                        EXCEPT !.batch = batch, !.matches = StudentMatchesOf(pool, batch)]
    /\ UNCHANGED <<pool, rows, history, nUpdates, requests, inflight>>

\* ------------------------------------------------------------- the writes
\* An UPDATE leaves the row where it is (InnoDB, clustered on id) or writes a
\* new row version behind the others (a PostgreSQL heap).
MoveToEnd(ord, u) == SelectSeq(ord, LAMBDA x : x # u) \o <<u>>

\* the find-swap requests being handled see the table become (p, ord)
Observed(p, ord) ==
    [c \in Clients |->
        IF inflight[c].op = "find-swap" /\ inflight[c].pc # "done"
        THEN [inflight[c] EXCEPT !.seen = @ \cup {<<p, ord>>}]
        ELSE inflight[c]]

\* the UPDATE of PUT /api/profile: desired_sections =
\* JSON.stringify(desiredSections || []), batch as given (NULL when absent)
ProfileUpdate(u, des, batch) ==
    /\ pool' = [pool EXCEPT ![u].des = des, ![u].batch = batch]
    /\ \/ rows' = rows
       \/ rows' = MoveToEnd(rows, u)
    /\ nUpdates' = nUpdates + 1

\* PUT /api/profile
UpdateProfile(u, des, batch) ==
    /\ nUpdates < MaxUpdates
    /\ ProfileUpdate(u, des, batch)
    /\ response' = Response("profile", u, NoTarget, "ok", NoTarget, NoRow, <<>>, <<>>)
    /\ UNCHANGED <<history, requests, inflight>>

\* PUT /api/update-section handled without interruption
UpdateSection(u, newSection) ==
    /\ nUpdates < MaxUpdates
    /\ LET oldSection == pool[u].cur IN
       history' = Append(history, [student_id |-> u, from_section |-> oldSection,
                                   to_section |-> newSection])
    /\ pool' = [pool EXCEPT ![u].cur = newSection]
    /\ \/ rows' = rows
       \/ rows' = MoveToEnd(rows, u)
    /\ nUpdates' = nUpdates + 1
    /\ response' = Response("update-section", u, newSection, "ok", NoTarget, NoRow, <<>>, <<>>)
    /\ UNCHANGED <<requests, inflight>>

\* POST /api/swap-request: one INSERT into swap_requests (the stringified
\* swap_path of the request body is not kept)
SwapRequest(u, targetSection, swapType) ==
    /\ nUpdates < MaxUpdates
    /\ requests' = Append(requests, [requester_id |-> u, target_section |-> targetSection,
                                     swap_type |-> swapType])
    /\ nUpdates' = nUpdates + 1
    /\ response' = Response("swap-request", u, targetSection, "ok", NoTarget, NoRow, <<>>, <<>>)
    /\ UNCHANGED <<pool, rows, history, inflight>>

\* ------------------------------------------------------------------ Init
\* section of student i in the initial table
SeedSection(i) == ((i - 1) % NumSections) + 1

\* The desired sections of student i of the /api/test-multistep fixture:
\* ['20','30'], ['30','40'], ['10','40'], ['50'], sections 10, 20, ... being
\* sections 1, 2, ...
FixtureDesired(i) ==
    CASE i = 1 -> <<2, 3>>
      [] i = 2 -> <<3, 4>>
      [] i = 3 -> <<1, 4>>
      [] OTHER -> <<5>>

\* The students of the /api/test-multistep fixture, with the sections
\* nobody occupies left out of the desired lists; one batch.
SeedPool ==
    [i \in Students |->
        [cur |-> SeedSection(i),
         des |-> DesList(SelectSeq(FixtureDesired(i), LAMBDA x : x \in Sections)),
         batch |-> "B1"]]

\* ---------------------------------------------------- /api/test-multistep
\* testStudents: the fixture as objects with desired_sections_parsed
TestStudents == AllRows(SeedPool, [i \in Students |-> i])

\* testStudents.filter(s => s.id !== student.id)
TestOtherStudents(student) == SelectSeq(TestStudents, LAMBDA s : s.id # student.id)

\* directMatches.length > 0
TestDirectMatch(student, targetSection) ==
    LET otherStudents == TestOtherStudents(student) IN
    \E k \in DOMAIN otherStudents :
        /\ otherStudents[k].cur = targetSection
        /\ Includes(otherStudents[k].des, student.cur)

\* simpleMultiStep
TestSimpleMultiStep(student, targetSection) ==
    LET otherStudents == TestOtherStudents(student)
        studentsInTarget == SelectSeq(otherStudents, LAMBDA s : s.cur = targetSection)
    IN  \E m \in DOMAIN studentsInTarget :
            LET middleDesiredSections == studentsInTarget[m].des.items IN
            \E d \in DOMAIN middleDesiredSections :
                LET middleDesired == middleDesiredSections[d] IN
                /\ middleDesired # student.cur
                /\ middleDesired # targetSection
                /\ \E k \in DOMAIN otherStudents :
                      /\ otherStudents[k].cur = middleDesired
                      /\ Includes(otherStudents[k].des, student.cur)

\* the fixture object as findSwapCycle reads it as currentUser: it has no
\* desired_sections property (only desired_sections_parsed)
TestCurrentUser(student) == [student EXCEPT !.des = DesNull]

\* cycle = findSwapCycle(student.current_section, targetSection,
\* otherStudents, 4, student)
TestCycle(student, targetSection) ==
    FindSwapCycle(student.cur, targetSection, TestOtherStudents(student),
                  TestCurrentUser(student))

\* the entries of results[student.name]; fullCycle is cycle &&
\* cycle.length > 0, FALSE standing for null
TestResultsOf(student) ==
    [i \in DOMAIN student.des.items |->
        LET targetSection == student.des.items[i] IN
        [type |-> "test", student |-> student.id, targetSection |-> targetSection,
         directMatch |-> TestDirectMatch(student, targetSection),
         simpleMultiStep |-> TestSimpleMultiStep(student, targetSection),
         fullCycle |-> TestCycle(student, targetSection) # <<>>]]

\* algorithmResults, student after student
RECURSIVE AlgorithmResults(_)
AlgorithmResults(i) ==
    IF i > Len(TestStudents) THEN <<>>
    ELSE TestResultsOf(TestStudents[i]) \o AlgorithmResults(i + 1)

\* GET /api/test-multistep
TestMultistep ==
    /\ response' = Response("test-multistep", 0, NoTarget, "ok", NoTarget, NoRow, <<>>,
                            AlgorithmResults(1))
    /\ UNCHANGED <<pool, rows, history, nUpdates, requests, inflight>>

\* initializeDatabase on an existing table: one row may still hold NULL (the
\* added column) or the text copied from the old desired_section column; that
\* migration counts as one of the writes
Init ==
    /\ \/ pool = SeedPool
       \/ \E u \in Students, d \in {DesNull, DesBad} :
            pool = [SeedPool EXCEPT ![u].des = d]
    /\ rows = [i \in Students |-> i]
    /\ history = <<>>
    /\ nUpdates = IF pool = SeedPool THEN 0 ELSE 1
    /\ response = Idle
    /\ requests = <<>>
    /\ inflight = NoRequests

Next ==
    \/ \E u \in Students, desiredSection \in Sections \cup {NoTarget} :
         FindSwap(u, desiredSection)
    \/ \E u \in Students : FindAllSwaps(u)
    \/ \E batch \in Batches \cup {NoBatch} : CheckAllStudentMatches(batch)
    \/ \E u \in Students, des \in StringifiedDesired, batch \in Batches \cup {NoBatch} :
         UpdateProfile(u, des, batch)
    \/ \E u \in Students, newSection \in Sections : UpdateSection(u, newSection)

Spec == Init /\ [][Next]_vars

\* The /api/test-multistep fixture as the table, searched and checked while
\* students file swap requests (swap-request) and complete swaps
\* (update-section).
InitFixture ==
    /\ pool = SeedPool
    /\ rows = [i \in Students |-> i]
    /\ history = <<>>
    /\ nUpdates = 0
    /\ response = Idle
    /\ requests = <<>>
    /\ inflight = NoRequests

NextFixture ==
    \/ \E u \in Students, desiredSection \in Sections \cup {NoTarget} :
         FindSwap(u, desiredSection)
    \/ \E u \in Students : FindAllSwaps(u)
    \/ \E batch \in Batches \cup {NoBatch} : CheckAllStudentMatches(batch)
    \/ \E u \in Students, newSection \in Sections : UpdateSection(u, newSection)
    \/ \E u \in Students, targetSection \in Sections, swapType \in {"direct", "multi"} :
         SwapRequest(u, targetSection, swapType)
    \/ TestMultistep

SpecFixture == InitFixture /\ [][NextFixture]_vars


\* ======================================================================
\* The handlers of /api/find-swap and /api/update-section query by query.
\* Node runs a handler without interruption between two awaits; every
\* executeQuery is an await, so other requests' queries run in between.
\* ======================================================================
Running(c, op, pc) == inflight[c].op = op /\ inflight[c].pc = pc

\* the index of the first target from i on that the loop does not skip
RECURSIVE NextIdx(_, _, _)
NextIdx(targets, i, cur) ==
    IF i > Len(targets) \/ targets[i] # cur THEN i
    ELSE NextIdx(targets, i + 1, cur)

Plan(type, targetSection, partner, path) ==
    [type |-> type, targetSection |-> targetSection, partner |-> partner, path |-> path]

\* request r has been answered with plan: the loop locals are gone
Answered(r, plan) == [r EXCEPT !.pc = "done", !.plan = plan, !.idx = 0, !.cu = NoRow]

\* client c may take a request: the clients are taken in order
Free(c) ==
    /\ inflight[c].op = "idle"
    /\ \A d \in Clients : d < c => inflight[d].op # "idle"

\* the response when the loop has run out of targets
NonePlan(student, desiredSection) ==
    Plan(IF JoinThrows(student, desiredSection) THEN "error500" ELSE "none",
         NoTarget, NoRow, <<>>)

\* find-swap, first query: the requester's row; then the handler runs until
\* it responds or awaits the partner query of the first target not skipped
FsFetchStudent(c, u, desiredSection) ==
    /\ Free(c)
    /\ LET student == RowOf(pool, u)
           targets == SectionsToSearch(student, desiredSection)
           idx == NextIdx(targets, 1, student.cur)
           started == ClientState("find-swap", "partners", u, desiredSection, student,
                                  idx, NoRow, NoPlan, NoTarget, {<<pool, rows>>})
       IN  inflight' = [inflight EXCEPT ![c] =
               IF student.batch = NoBatch
               THEN Answered(started, Plan("error400", NoTarget, NoRow, <<>>))
               ELSE IF SectionsToSearchThrows(student, desiredSection)
               THEN Answered(started, Plan("error500", NoTarget, NoRow, <<>>))
               ELSE IF idx > Len(targets)
               THEN Answered(started, NonePlan(student, desiredSection))
               ELSE started]
    /\ UNCHANGED <<pool, rows, history, nUpdates, response, requests>>

\* find-swap, the partner query of the target at idx and the find on its rows
FsPartners(c) ==
    /\ Running(c, "find-swap", "partners")
    /\ LET r == inflight[c]
           targetSection == SectionsToSearch(r.student, r.arg)[r.idx]
           directSwapPartners ==
               DirectSwapPartnersQuery(pool, rows, targetSection, r.student.id,
                                       r.student.batch)
           directPartner == DirectPartner(directSwapPartners, r.student.cur)
       IN  inflight' = [inflight EXCEPT ![c] =
               IF directPartner # NoRow
               THEN Answered(r, Plan("direct", targetSection, directPartner, <<>>))
               ELSE [r EXCEPT !.pc = "user"]]
    /\ UNCHANGED <<pool, rows, history, nUpdates, response, requests>>

\* findMultiStepSwap, first query: the requester's row again
FsCurrentUser(c) ==
    /\ Running(c, "find-swap", "user")
    /\ inflight' = [inflight EXCEPT ![c].cu = RowOf(pool, inflight[c].user),
                                    ![c].pc = "students"]
    /\ UNCHANGED <<pool, rows, history, nUpdates, response, requests>>

\* (variant: an exception of the rotation search ends the request)
FsStudentsFatal(c) ==
    /\ Running(c, "find-swap", "students")
    /\ LET r == inflight[c]
           targets == SectionsToSearch(r.student, r.arg)
           targetSection == targets[r.idx]
           students == OtherStudentsQuery(pool, rows, r.user, r.student.batch)
           swapPath == MultiStepFromRows(r.student.cur, targetSection, r.cu, students)
           idx == NextIdx(targets, r.idx + 1, r.student.cur)
       IN  inflight' = [inflight EXCEPT ![c] =
               IF UserDesiredThrows(r.cu)
               THEN Answered(r, Plan("error500", NoTarget, NoRow, <<>>))
               ELSE IF swapPath # <<>>
               THEN Answered(r, Plan("multi", targetSection, NoRow, swapPath))
               ELSE IF idx > Len(targets)
               THEN Answered(r, NonePlan(r.student, r.arg))
               ELSE [r EXCEPT !.pc = "partners", !.idx = idx]]
    /\ UNCHANGED <<pool, rows, history, nUpdates, response, requests>>

\* findMultiStepSwap, second query: the other students of the batch; then
\* findSwapCycle, and the handler responds or goes on to the next target
FsStudents(c) ==
    /\ Running(c, "find-swap", "students")
    /\ LET r == inflight[c]
           targets == SectionsToSearch(r.student, r.arg)
           targetSection == targets[r.idx]
           students == OtherStudentsQuery(pool, rows, r.user, r.student.batch)
           swapPath == MultiStepFromRows(r.student.cur, targetSection, r.cu, students)
           idx == NextIdx(targets, r.idx + 1, r.student.cur)
       IN  inflight' = [inflight EXCEPT ![c] =
               IF swapPath # <<>>
               THEN Answered(r, Plan("multi", targetSection, NoRow, swapPath))
               ELSE IF idx > Len(targets)
               THEN Answered(r, NonePlan(r.student, r.arg))
               ELSE [r EXCEPT !.pc = "partners", !.idx = idx]]
    /\ UNCHANGED <<pool, rows, history, nUpdates, response, requests>>

\* a request that writes may start: the writes that are due and one more
\* stay within MaxUpdates
MayWrite ==
    nUpdates + Cardinality({d \in Clients : Running(d, "update-section", "update")})
        < MaxUpdates

\* update-section, first query: the student's row, for oldSection
UsFetchStudent(c, u, newSection) ==
    /\ Free(c)
    /\ MayWrite
    /\ inflight' = [inflight EXCEPT ![c] =
           ClientState("update-section", "update", u, newSection, RowOf(pool, u),
                       0, NoRow, NoPlan, NoTarget, {})]
    /\ UNCHANGED <<pool, rows, history, nUpdates, response, requests>>

\* update-section, the UPDATE of current_section
UsUpdate(c) ==
    /\ Running(c, "update-section", "update")
    /\ LET r == inflight[c] IN
       /\ pool' = [pool EXCEPT ![r.user].cur = r.arg]
       /\ \/ rows' = rows
          \/ rows' = MoveToEnd(rows, r.user)
       /\ inflight' = [Observed(pool', rows') EXCEPT
                          ![c].pc = "insert", ![c].prev = pool[r.user].cur]
    /\ nUpdates' = nUpdates + 1
    /\ UNCHANGED <<history, response, requests>>

\* update-section, the INSERT into swap_history, and the response
UsInsert(c) ==
    /\ Running(c, "update-section", "insert")
    /\ LET r == inflight[c] IN
       history' = Append(history, [student_id |-> r.user,
                                   from_section |-> r.student.cur,
                                   to_section |-> r.arg])
    /\ inflight' = [inflight EXCEPT ![c].pc = "done"]
    /\ UNCHANGED <<pool, rows, nUpdates, response, requests>>

\* PUT /api/profile of client c: its one query is the UPDATE
PutProfile(c, u, des, batch) ==
    /\ Free(c)
    /\ MayWrite
    /\ ProfileUpdate(u, des, batch)
    /\ inflight' = [Observed(pool', rows') EXCEPT ![c] =
           ClientState("profile", "done", u, NoTarget, NoRow, 0, NoRow, NoPlan,
                       NoTarget, {})]
    /\ UNCHANGED <<history, response, requests>>

\* the profile updates of the interleaved runs: one desired section
OneSectionLists == {DesList(<<x>>) : x \in Sections}

\* the desiredSections of the interleaved profile updates: a list of one
\* section, or a value that is no list and has no includes (a number)
InterleavedDesired == OneSectionLists \cup {DesScalar}

NextConc ==
    \/ \E c \in Clients, u \in Students, desiredSection \in Sections \cup {NoTarget} :
         FsFetchStudent(c, u, desiredSection)
    \/ \E c \in Clients : FsPartners(c)
    \/ \E c \in Clients : FsCurrentUser(c)
    \/ \E c \in Clients : FsStudents(c)
    \/ \E c \in Clients, u \in Students, newSection \in Sections :
         UsFetchStudent(c, u, newSection)
    \/ \E c \in Clients : UsUpdate(c)
    \/ \E c \in Clients : UsInsert(c)
    \/ \E c \in Clients, u \in Students, des \in InterleavedDesired :
         PutProfile(c, u, des, "B1")

SpecConc == InitFixture /\ [][NextConc]_vars


\* ======================================================================
\* A crowded table: more students in one section than the rotation search
\* explores at a position.  One student occupies section 1 and desires
\* section 2; the others occupy section 2 and desire section 1, desire
\* another section, or have no preference stored.
\* ======================================================================
CrowdStudents == 1..(MAX_CANDIDATES + CrowdExtra)

CrowdDesired == {DesList(<<1>>), DesList(<<NumSections>>), DesNull}

CrowdPools ==
    {[i \in CrowdStudents |->
         IF i = 1 THEN [cur |-> 1, des |-> DesList(<<2>>), batch |-> "B1"]
         ELSE [cur |-> 2, des |-> d[i], batch |-> "B1"]] :
       d \in [CrowdStudents \ {1} -> CrowdDesired]}

\* the storage order: by identifier, or the reverse
InitCrowd ==
    /\ pool \in CrowdPools
    /\ \/ rows = [i \in CrowdStudents |-> i]
       \/ rows = [i \in CrowdStudents |-> MAX_CANDIDATES + CrowdExtra + 1 - i]
    /\ history = <<>>
    /\ nUpdates = 0
    /\ response = Idle
    /\ requests = <<>>
    /\ inflight = NoRequests

NextCrowd ==
    \/ \E u \in CrowdStudents, desiredSection \in Sections \cup {NoTarget} :
         FindSwap(u, desiredSection)
    \/ \E u \in CrowdStudents : FindAllSwaps(u)

SpecCrowd == InitCrowd /\ [][NextCrowd]_vars


\* ======================================================================
\* Properties.  In Spec every request is handled on one state of the table,
\* so while response holds the answer of a search, pool is the table that
\* search read.
\* ======================================================================

\* the requester of the search answered last
IsSearch == response.op \in {"find-swap", "find-all-swaps"}
Requester == RowOf(pool, response.user)

\* the glossary's eligible student: a parseable, non-empty desired list
Eligible(r) == r.des.kind = "list" /\ Len(r.des.items) > 0
\* the desired list of r contains s
ListContains(r, s) == r.des.kind = "list" /\ \E i \in DOMAIN r.des.items : r.des.items[i] = s
\* the stored preference of r, a list or a single name, names s
Names(r, s) == r.des.kind \in {"list", "str"} /\ \E i \in DOMAIN r.des.items : r.des.items[i] = s
\* r is of the requester's cohort, occupies t and passes the direct check
\* for section s
PassesDirectCheck(r, t, s) ==
    /\ r.id # response.user /\ r.cur = t /\ r.batch = Requester.batch
    /\ r.des.kind \in {"list", "str"} /\ Includes(r.des, s)
\* both carry the same cohort tag
SameCohort(a, b) == a.batch # NoBatch /\ a.batch = b.batch

\* the rotations of the response: of /api/find-swap, and the multi entries
\* of /api/find-all-swaps
ReturnedRotations ==
    (IF response.op = "find-swap" /\ response.type = "multi"
     THEN {[targetSection |-> response.targetSection, path |-> response.path]}
     ELSE {})
    \cup {[targetSection |-> response.swaps[i].targetSection, path |-> response.swaps[i].path] :
            i \in {j \in DOMAIN response.swaps : response.swaps[j].type = "multi"}}

\* the direct plans of the response, one per partner named
ReturnedDirects ==
    (IF response.op = "find-swap" /\ response.type = "direct"
     THEN {[targetSection |-> response.targetSection, partner |-> response.partner]}
     ELSE {})
    \cup UNION {{[targetSection |-> response.swaps[i].targetSection,
                  partner |-> response.swaps[i].partners[k]] :
                    k \in DOMAIN response.swaps[i].partners} :
                i \in {j \in DOMAIN response.swaps : response.swaps[j].type = "direct"}}

\* ---------------------------------------------------------------- C1
C1_Case(a, b) ==
    /\ response.op = "find-swap" /\ response.user = a /\ a # b
    /\ Eligible(RowOf(pool, a)) /\ Eligible(RowOf(pool, b))
    /\ SameCohort(RowOf(pool, a), RowOf(pool, b))
    /\ ListContains(RowOf(pool, a), pool[b].cur)
    /\ ListContains(RowOf(pool, b), pool[a].cur)
    /\ response.asked = pool[b].cur

C1_DirectPlanFor(a, b) ==
    /\ response.type = "direct"
    /\ response.targetSection = pool[b].cur
    /\ response.partner.id \in Students \ {a}
    /\ pool[response.partner.id].cur = pool[b].cur
    /\ Names(RowOf(pool, response.partner.id), pool[a].cur)

\* C1 as stated, for A and B in different sections (a target equal to the
\* requester's own section is skipped by the handler): for every two
\* eligible students A and B of one cohort where B's section is in A's
\* desired list and A's section is in B's, find-swap for A with target B's
\* section answers with a direct plan whose partner is B or another student
\* of that section whose preference names A's section.
C1_DirectMatchComplete ==
    \A a, b \in Students :
        (C1_Case(a, b) /\ pool[a].cur # pool[b].cur) => C1_DirectPlanFor(a, b)

\* ---------------------------------------------------------------- C2
\* a closed chain of k+1 students for requester a and target t: a moves from
\* its section to t, c[1] occupies t, every c[i] moves to the section of
\* c[i+1], which is in its desired list, and c[k] moves to a's section
ClosedChain(a, t, c) ==
    LET k == Len(c) IN
    /\ \A i, j \in 1..k : i # j => c[i] # c[j]
    /\ \A i \in 1..k : c[i] # a /\ SameCohort(RowOf(pool, a), RowOf(pool, c[i]))
                       /\ Eligible(RowOf(pool, c[i]))
    /\ pool[c[1]].cur = t
    /\ \A i \in 1..(k - 1) : ListContains(RowOf(pool, c[i]), pool[c[i + 1]].cur)
    /\ ListContains(RowOf(pool, c[k]), pool[a].cur)
    \* the sections of the chain are pairwise different
    /\ \A i, j \in 1..k : i # j => pool[c[i]].cur # pool[c[j]].cur
    /\ \A i \in 1..k : pool[c[i]].cur # pool[a].cur

\* the chains of 3 to 5 students (2 to 4 besides the requester)
ChainsOfOthers == UNION {[1..k -> Students] : k \in 2..(MAX_SWAP_LENGTH - 1)}

C2_Case(a, t) ==
    /\ response.op = "find-swap" /\ response.user = a /\ response.asked = t
    /\ ListContains(RowOf(pool, a), t)
    /\ t # pool[a].cur
    /\ ~\E b \in Students : PassesDirectCheck(RowOf(pool, b), t, pool[a].cur)
    /\ \E c \in ChainsOfOthers : ClosedChain(a, t, c)

\* C2 as stated: when the target is in the requester's desired list, differs
\* from the requester's section, has no direct partner, and a closed chain
\* of 3 to 5 students exists (a table of at most MAX_CANDIDATES students has
\* every candidate within the first 5), find-swap answers with a rotation
\* for the target and not with none.
C2_RotationFound ==
    \A a \in Students, t \in Sections :
        C2_Case(a, t) => (response.type = "multi" /\ response.targetSection = t)

\* ---------------------------------------------------------------- C3
\* C3 as stated: the partner of every direct plan of find-swap is not the
\* requester, occupies the target, is of the requester's cohort, and has a
\* desired list that contains the requester's section (a stored single name
\* equal to the requester's section is counted as containing it).
C3_DirectPlanSound ==
    (response.op = "find-swap" /\ response.type = "direct") =>
        /\ response.partner.id \in Students \ {response.user}
        /\ response.partner = RowOf(pool, response.partner.id)
        /\ response.partner.cur = response.targetSection
        /\ SameCohort(Requester, response.partner)
        /\ Names(response.partner, Requester.cur)

\* ---------------------------------------------------------------- C4
\* an eligible student of the requester's cohort occupies t and desires the
\* requester's section
EligiblePartnerIn(t) ==
    \E b \in Students \ {response.user} :
        /\ pool[b].cur = t /\ SameCohort(Requester, RowOf(pool, b))
        /\ Eligible(RowOf(pool, b)) /\ ListContains(RowOf(pool, b), Requester.cur)

\* C4: find-swap answers with a rotation for target T only if no eligible
\* student occupying T desires the requester's section; when there is such
\* a student, the plan returned for T is a direct plan.
C4_DirectBeforeRotation ==
    (response.op = "find-swap" /\ response.type \in {"direct", "multi"}) =>
        /\ response.type = "multi" => ~EligiblePartnerIn(response.targetSection)
        /\ EligiblePartnerIn(response.targetSection) => response.type = "direct"

C4_Witness ==
    /\ response.op = "find-swap" /\ response.type = "direct"
    /\ EligiblePartnerIn(response.targetSection)
    /\ ListContains(Requester, response.targetSection)

\* ---------------------------------------------------------------- C5
\* target t has a match for the requester: a student that passes the direct
\* check, or a rotation that the rotation search finds
TargetHasMatch(t) ==
    /\ t # Requester.cur
    /\ \/ \E b \in Students : PassesDirectCheck(RowOf(pool, b), t, Requester.cur)
       \/ FindMultiStepSwap(pool, rows, Requester.cur, t, response.user,
                            Requester.batch) # <<>>

\* the target list of a find-swap request without an explicit target: the
\* stored list (the characters of a stored bare string)
PriorityList ==
    IF Requester.des.kind = "list" THEN Requester.des.items
    ELSE IF Requester.des.kind = "str" THEN CharsOf(Requester.des.items[1])
    ELSE <<>>

C5_Case ==
    /\ response.op = "find-swap" /\ response.asked = NoTarget
    /\ response.type \in {"direct", "multi", "none"}

\* C5: find-swap examines the target list in order and answers with the plan
\* of the first target that has a match; none when no target has one.
C5_PriorityOrdering ==
    C5_Case =>
        LET matching == {i \in DOMAIN PriorityList : TargetHasMatch(PriorityList[i])}
        IN  IF matching = {} THEN response.type = "none"
            ELSE /\ response.type # "none"
                 /\ response.targetSection =
                        PriorityList[CHOOSE i \in matching : \A j \in matching : i <= j]

\* only the second of two targets has a match, and it is the one returned
C5_Witness ==
    /\ C5_Case
    /\ Len(PriorityList) = 2
    /\ ~TargetHasMatch(PriorityList[1])
    /\ TargetHasMatch(PriorityList[2])
    /\ response.targetSection = PriorityList[2]

\* ---------------------------------------------------------------- C6
\* C6: every returned rotation has 2 to 5 steps, starts at the requester's
\* section with the only step flagged isCurrentUser, ends at the requester's
\* section, and each step starts where the step before it ends.
C6_RotationClosure ==
    IsSearch =>
        \A r \in ReturnedRotations :
            LET path == r.path IN
            /\ Len(path) \in 2..MAX_SWAP_LENGTH
            /\ path[1].from = Requester.cur
            /\ \A i \in DOMAIN path : path[i].isCurrentUser <=> (i = 1)
            /\ path[Len(path)].to = Requester.cur
            /\ \A i \in 1..(Len(path) - 1) : path[i].to = path[i + 1].from

C6_Witness ==
    /\ IsSearch
    /\ \E r \in ReturnedRotations : Len(r.path) = 2 /\ r.path[2].to = Requester.cur

\* ---------------------------------------------------------------- C7
\* C7: in every returned rotation each step that is not the requester's is
\* taken by a student who occupies the step's from-section and is not the
\* requester.
C7_OccupantConsistency ==
    IsSearch =>
        \A r \in ReturnedRotations :
            \A i \in 2..Len(r.path) :
                /\ r.path[i].student.id \in Students \ {response.user}
                /\ r.path[i].student.cur = r.path[i].from
                /\ pool[r.path[i].student.id].cur = r.path[i].from

C7_Witness ==
    /\ IsSearch
    /\ \E r \in ReturnedRotations :
          /\ Len(r.path) >= 2
          /\ pool[r.path[2].student.id].cur = r.path[2].from
          /\ r.path[2].student.id # response.user

Move(id, from, to) == [id |-> id, from |-> from, to |-> to]

\* the moves of the returned plans
PlanMoves ==
    {<<Move(response.user, Requester.cur, d.targetSection),
       Move(d.partner.id, d.partner.cur, Requester.cur)>> : d \in ReturnedDirects}
    \cup {[i \in DOMAIN r.path |-> Move(r.path[i].student.id, r.path[i].from, r.path[i].to)] :
            r \in ReturnedRotations}

\* distinct students leave distinct sections they occupy, and every section
\* is entered as often as it is left
NetZero(moves) ==
    /\ \A i, j \in DOMAIN moves : i # j =>
          moves[i].id # moves[j].id /\ moves[i].from # moves[j].from
    /\ \A i \in DOMAIN moves : pool[moves[i].id].cur = moves[i].from
    /\ \A sec \in Sections :
          Cardinality({i \in DOMAIN moves : moves[i].from = sec})
            = Cardinality({i \in DOMAIN moves : moves[i].to = sec})

\* C9: the steps of every returned plan, direct or rotation, move pairwise
\* distinct students between pairwise distinct sections and leave every
\* section's number of occupants unchanged.
C9_NetZeroDisplacement ==
    IsSearch => \A moves \in PlanMoves : NetZero(moves)

C9_Witness ==
    /\ response.op = "find-all-swaps"
    /\ \E d \in ReturnedDirects : TRUE
    /\ \E r \in ReturnedRotations : TRUE
    /\ \A moves \in PlanMoves : NetZero(moves)


TargetList == SectionsToSearch(Requester, response.asked)
\* the targets other than the requester's section, in order
OtherTargets == SelectSeq(TargetList, LAMBDA t : t # Requester.cur)

C11_Case ==
    /\ response.op = "find-swap"
    /\ response.type \in {"direct", "multi", "none"}

\* C11: find-swap issues its partner query (and with it the rotation search)
\* for no target equal to the requester's section, returns no plan for such
\* a target, and goes on with the next target: the targets searched are the
\* targets other than the requester's section, in order, up to the target
\* of the returned plan.
C11_NoSelfLoop ==
    C11_Case =>
        LET searched == response.searched IN
        /\ \A i \in DOMAIN searched : searched[i] # Requester.cur
        /\ response.type # "none" => response.targetSection # Requester.cur
        /\ Len(searched) <= Len(OtherTargets)
        /\ searched = SubSeq(OtherTargets, 1, Len(searched))
        /\ response.type = "none" => searched = OtherTargets
        /\ response.type # "none" =>
              /\ Len(searched) > 0
              /\ searched[Len(searched)] = response.targetSection

\* the requester's own section is the first target, and the plan returned is
\* for a later one
C11_Witness ==
    /\ C11_Case
    /\ Len(TargetList) >= 2
    /\ TargetList[1] = Requester.cur
    /\ response.type = "direct"
    /\ response.targetSection # Requester.cur


\* ---------------------------------------------------------------- C12
\* the least identifier of a non-empty set of students
MinId(S) == CHOOSE i \in S : \A j \in S : i <= j

\* the students that pass the direct check for target t
DirectCandidates(t) ==
    {b \in Students : PassesDirectCheck(RowOf(pool, b), t, Requester.cur)}

\* a find-swap request that repeats the one answered last, on the same pool
C12_Repeated ==
    /\ response.op = "find-swap" /\ response'.op = "find-swap"
    /\ response'.user = response.user /\ response'.asked = response.asked
    /\ pool' = pool

\* the partner of a direct plan, and the student of the second step of a
\* rotation, is the first in ascending identifier order
C12_FirstById ==
    (response.op = "find-swap" /\ response.type \in {"direct", "multi"}) =>
        LET first == MinId(DirectCandidates(response.targetSection)) IN
        /\ response.type = "direct" => response.partner.id = first
        /\ response.type = "multi" => response.path[2].student.id = first

SearchStudents ==
    ValidStudents(OtherStudentsQuery(pool, rows, response.user, Requester.batch))

\* c lists the other students of a closed chain the search considers for
\* target t: the requester moves to the section of c[1], a section of its
\* own list, every c[i] moves to the section of c[i + 1], which its list
\* contains, and the last one leaves t for the requester's section
ConsideredChain(t, c) ==
    LET k == Len(c)
        valid == {SearchStudents[i].id : i \in DOMAIN SearchStudents}
    IN  /\ \A i \in 1..k : c[i] \in valid
        /\ \A i, j \in 1..k : i # j => pool[c[i]].cur # pool[c[j]].cur
        /\ \A i \in 1..k : pool[c[i]].cur # Requester.cur
        /\ Names(Requester, pool[c[1]].cur) /\ Names(Requester, t)
        /\ pool[c[k]].cur = t
        /\ \A i \in 1..(k - 1) : ListContains(RowOf(pool, c[i]), pool[c[i + 1]].cur)
        /\ ListContains(RowOf(pool, c[k]), Requester.cur)

\* C13: the lengths are tried in the order 2, 3, 4, 5: a returned rotation
\* of k steps is what the search finds for length k, the search finds
\* nothing for a smaller length, and no closed chain of fewer than k steps
\* exists among the chains the search considers.
C13_ShortestChainFirst ==
    IsSearch =>
        \A r \in ReturnedRotations :
            LET k == Len(r.path) IN
            /\ r.path = ChainOfLength(k, SearchStudents, Requester.cur,
                                      r.targetSection, Requester)
            /\ \A j \in 2..(k - 1) :
                  /\ ChainOfLength(j, SearchStudents, Requester.cur,
                                   r.targetSection, Requester) = <<>>
                  /\ ~\E c \in [1..(j - 1) -> Students] : ConsideredChain(r.targetSection, c)

\* a rotation of 2 steps is returned for a target for which the search for
\* length 3 finds a chain too
C13_Witness ==
    /\ IsSearch
    /\ \E r \in ReturnedRotations :
          /\ Len(r.path) = 2
          /\ Chain3(SearchStudents, Requester.cur, r.targetSection, Requester) # <<>>


\* ---------------------------------------------------------------- C14
\* students i and j are different eligible students of cohort b
EligibleOthers(b, i, j) ==
    /\ i # j
    /\ pool[j].batch = b
    /\ Eligible(RowOf(pool, j))

\* student i of cohort b has a direct or a 2-hop match for target t
DirectOrTwoHop(b, i, t) ==
    LET R == pool[i].cur IN
    \/ \E j \in Students :
          /\ EligibleOthers(b, i, j) /\ pool[j].cur = t
          /\ ListContains(RowOf(pool, j), R)
    \/ \E j, m \in Students, M \in Sections \ {R, t} :
          /\ EligibleOthers(b, i, j) /\ pool[j].cur = t
          /\ ListContains(RowOf(pool, j), M)
          /\ EligibleOthers(b, i, m) /\ pool[m].cur = M
          /\ ListContains(RowOf(pool, m), R)

C14_Case == response.op = "check-all" /\ response.batch # NoBatch

\* C14: checkAllStudentMatches(cohort) returns a map with an entry for every
\* student of the cohort, and the entry of a student is true exactly when
\* the student is eligible and some section of its desired list, other than
\* its own, has a direct match or a 2-hop match among the eligible other
\* students of the cohort.
C14_BatchCheckerResult ==
    C14_Case =>
        LET b == response.batch IN
        /\ DOMAIN response.matches = {i \in Students : pool[i].batch = b}
        /\ \A i \in DOMAIN response.matches :
              response.matches[i] <=>
                  /\ Eligible(RowOf(pool, i))
                  /\ \E t \in Sections \ {pool[i].cur} :
                        ListContains(RowOf(pool, i), t) /\ DirectOrTwoHop(b, i, t)

\* a map with a true entry and the false entry of a student that is not
\* eligible
C14_Witness ==
    /\ C14_Case
    /\ \E i, k \in DOMAIN response.matches :
          /\ response.matches[i]
          /\ ~response.matches[k] /\ ~Eligible(RowOf(pool, k))


\* ---------------------------------------------------------------- C15
\* the students of the fixture: Alice (Suchit), Bob (Aman), Carol (Antara),
\* in sections 10, 20, 30, here sections 1, 2, 3
Alice == 1
Bob == 2
Carol == 3

\* the table is the fixture
IsFixture == pool = SeedPool
\* the checker was called for the fixture's cohort (or for every student)
IsFixtureCheck ==
    IsFixture /\ response.op = "check-all" /\ response.batch \in {"B1", NoBatch}
\* find-swap of student u with the one target t was answered
FixtureFindSwap(u, t) ==
    IsFixture /\ response.op = "find-swap" /\ response.user = u /\ response.asked = t

\* C15: on the fixture find-swap of Alice for 30 returns a direct plan with
\* partner Carol, find-swap of Carol for 10 a direct plan with partner
\* Alice, and the checker marks Alice and Carol true.
C15_FixturePositive ==
    /\ FixtureFindSwap(Alice, pool[Carol].cur) =>
          /\ response.type = "direct" /\ response.targetSection = pool[Carol].cur
          /\ response.partner.id = Carol
    /\ FixtureFindSwap(Carol, pool[Alice].cur) =>
          /\ response.type = "direct" /\ response.targetSection = pool[Alice].cur
          /\ response.partner.id = Alice
    /\ IsFixtureCheck => (response.matches[Alice] /\ response.matches[Carol])

C15_Witness ==
    /\ FixtureFindSwap(Alice, pool[Carol].cur)
    /\ response.type = "direct" /\ response.partner.id = Carol
    /\ StudentMatchesOf(pool, "B1")[Alice] /\ StudentMatchesOf(pool, "B1")[Carol]
    /\ FindSwapResponse(pool, rows, Carol, pool[Alice].cur).partner.id = Alice

\* ---------------------------------------------------------------- C16
\* Bob has no direct partner for target t
FixtureNoDirect(t) ==
    ~\E b \in Students : PassesDirectCheck(RowOf(pool, b), t, pool[Bob].cur)

\* C16: on the fixture find-swap of Bob for 30 finds no direct partner and
\* no rotation and returns none, while the checker marks Bob true, through
\* the 2-hop Bob to 30, Carol to 10, Alice to 20: the checker's true entry
\* stands beside a resolver that finds no plan for any target of Bob.
C16_FixtureBob ==
    /\ FixtureFindSwap(Bob, pool[Carol].cur) =>
          /\ response.type = "none"
          /\ FixtureNoDirect(pool[Carol].cur)
          /\ FindMultiStepSwap(pool, rows, pool[Bob].cur, pool[Carol].cur, Bob,
                               pool[Bob].batch) = <<>>
    /\ IsFixtureCheck =>
          /\ response.matches[Bob]
          /\ ~CheckDirectMatch(RowOf(pool, Bob), pool[Carol].cur,
                               CheckValidStudents(AllStudentsQuery(pool, response.batch)))
          /\ ListContains(RowOf(pool, Bob), pool[Carol].cur)
          /\ ListContains(RowOf(pool, Carol), pool[Alice].cur)
          /\ ListContains(RowOf(pool, Alice), pool[Bob].cur)
          /\ FindSwapResponse(pool, rows, Bob, NoTarget).type = "none"

C16_Witness ==
    /\ IsFixtureCheck
    /\ response.matches[Bob]
    /\ FindSwapResponse(pool, rows, Bob, pool[Carol].cur).type = "none"


\* ---------------------------------------------------------------- C18
SearchOps == {"find-swap", "find-all-swaps", "check-all"}

\* C18: a step that answers find-swap, find-all-swaps (with the rotation
\* search they call) or checkAllStudentMatches changes no student's section,
\* desired list or cohort and adds no swap_requests or swap_history record.
C18_ResolverReadOnly ==
    [][response'.op \in SearchOps =>
          pool' = pool /\ history' = history /\ requests' = requests]_vars

\* a search is answered on tables that hold a completed swap and a request
C18_Witness ==
    /\ response.op \in SearchOps
    /\ response.type \in {"direct", "multiple", "ok"}
    /\ pool # SeedPool /\ history # <<>> /\ requests # <<>>


\* ----------------------------------------------------------------- C17
\* the plan the search of /api/find-swap produces on the one table state
\* <<p, ord>> for requester u asking for arg
PlanOn(p, ord, u, arg) ==
    LET r == FindSwapResponse(p, ord, u, arg)
    IN  Plan(r.type, r.targetSection, r.partner, r.path)

\* the plans of answered find-swap requests that name a swap
SwapPlans == {"direct", "multi"}

\* request c is an answered find-swap whose plan names a swap
ReturnedPlan(c) ==
    /\ Running(c, "find-swap", "done")
    /\ inflight[c].plan.type \in SwapPlans

\* C17 (consistent snapshot): every plan returned by a find-swap request
\* is the plan the search produces on one single state of the student
\* pool that existed during the request, whatever profile updates and
\* update-section requests ran between the request's queries.
C17_ConsistentSnapshot ==
    \A c \in Clients :
        ReturnedPlan(c) =>
            \E s \in inflight[c].seen :
                inflight[c].plan = PlanOn(s[1], s[2], inflight[c].user, inflight[c].arg)


\* ----------------------------------------------------------------- C19
\* c and d are answered find-swap requests of two different requesters
\* who were in the same section and cohort, asked for the same target and
\* ran against the same pool: no write happened during either request
SamePoolRace(c, d) ==
    /\ c # d
    /\ Running(c, "find-swap", "done")
    /\ Running(d, "find-swap", "done")
    /\ inflight[c].user # inflight[d].user
    /\ inflight[c].student.cur = inflight[d].student.cur
    /\ inflight[c].student.batch = inflight[d].student.batch
    /\ inflight[c].arg # NoTarget
    /\ inflight[c].arg = inflight[d].arg
    /\ Cardinality(inflight[c].seen) = 1
    /\ inflight[c].seen = inflight[d].seen

\* C19 (unarbitrated partner race): when two different requesters of one
\* section search the same target on the same pool and one of them is
\* returned a direct partner, the other is returned that same partner:
\* the first plan neither reserves the partner nor is it detected.  Both
\* plans are then outstanding at once and name one partner.
C19_PartnerRace ==
    \A c, d \in Clients :
        SamePoolRace(c, d) /\ inflight[c].plan.type = "direct" =>
            /\ inflight[d].plan.type = "direct"
            /\ inflight[d].plan.partner.id = inflight[c].plan.partner.id

\* two outstanding direct plans of different requesters name one partner
C19_Witness ==
    \E c, d \in Clients :
        /\ SamePoolRace(c, d)
        /\ inflight[c].plan.type = "direct"
        /\ inflight[d].plan.type = "direct"
        /\ inflight[c].plan.partner.id = inflight[d].plan.partner.id
        /\ inflight[c].plan.partner.id \in Students


\* ----------------------------------------------------------------- C20
\* the update-section requests that have been answered
UpdatesDone == {c \in Clients : Running(c, "update-section", "done")}

\* this step changes the current section of student u
SectionChanges(u) == pool'[u].cur # pool[u].cur

\* this step is the UPDATE of an update-section request of student u
UpdateSectionStep(u) ==
    \E c \in Clients :
        /\ Running(c, "update-section", "update")
        /\ inflight[c].user = u
        /\ pool'[u].cur = inflight[c].arg
        /\ inflight'[c].pc = "insert"

\* the record the claim asks of answered request c: from the section the
\* student held immediately before the request's change, to the new one
DueRecord(c) ==
    [student_id |-> inflight[c].user,
     from_section |-> inflight[c].prev,
     to_section |-> inflight[c].arg]

\* C20 (section changes are recorded): a student's current section changes
\* only in the UPDATE of an update-section request, and every answered
\* update-section request has added exactly one swap_history record, from
\* the section the student held immediately before that change to the
\* new section, however the update-section requests are interleaved.
C20_SectionChangesRecorded ==
    /\ [][\A u \in Students : SectionChanges(u) => UpdateSectionStep(u)]_vars
    /\ [](Len(history) = Cardinality(UpdatesDone))
    /\ [](\A c \in UpdatesDone : \E i \in DOMAIN history : history[i] = DueRecord(c))


\* ----------------------------------------------------------------- C21
\* the table p without the record of student m: m occupies no section, has
\* no preference and belongs to no cohort of the others
Absent(p, m) == [p EXCEPT ![m] = [cur |-> 0, des |-> DesNull, batch |-> "none"]]

\* the record's desired-section data is missing, unparseable, not a list
\* or an empty list
Malformed(r) == ~Eligible(r)

\* two responses of a search carry the same result
SameResult(a, b) ==
    /\ a.type = b.type /\ a.targetSection = b.targetSection
    /\ a.partner = b.partner /\ a.path = b.path /\ a.swaps = b.swaps

\* the response is what the remaining records give when the candidate
\* record m is taken away
UnchangedWithout(m) ==
    CASE response.op = "find-swap" ->
           SameResult(response, FindSwapResponse(Absent(pool, m), rows, response.user,
                                                 response.asked))
      [] response.op = "find-all-swaps" ->
           SameResult(response, FindAllSwapsResponse(Absent(pool, m), rows, response.user))
      [] response.op = "check-all" ->
           LET rest == StudentMatchesOf(Absent(pool, m), response.batch) IN
           /\ m \in DOMAIN response.matches => ~response.matches[m]
           /\ \A i \in DOMAIN response.matches \ {m} :
                 i \in DOMAIN rest /\ response.matches[i] = rest[i]
      [] OTHER -> TRUE

\* C21 (malformed candidate data is not fatal): a candidate record whose
\* desired-section data is missing, unparseable, not a list or an empty
\* list is skipped by the direct check and by the rotation search: the
\* answer of find-swap, find-all-swaps and checkAllStudentMatches is the
\* one the remaining records give, and so is no error the candidate caused.
C21_MalformedSkipped ==
    \A m \in Students :
        (m # response.user /\ Malformed(RowOf(pool, m))) => UnchangedWithout(m)


\* ----------------------------------------------------------------- C22
\* the rotation search of request c is about to fail: the requester's row
\* it fetched is missing, or its desired list makes findSwapCycle throw
RotationFails(c) ==
    /\ Running(c, "find-swap", "students")
    /\ (inflight[c].cu = NoRow \/ UserDesiredThrows(inflight[c].cu))

\* request c goes on after the target at its idx: to the partner query of
\* the next target that is not skipped, or, after the last one, to none
GoesOn(c) ==
    LET r == inflight[c]
        targets == SectionsToSearch(r.student, r.arg)
        next == NextIdx(targets, r.idx + 1, r.student.cur)
    IN  IF next <= Len(targets)
        THEN inflight'[c].pc = "partners" /\ inflight'[c].idx = next
        ELSE inflight'[c].pc = "done" /\ inflight'[c].plan.type = "none"

\* C22 (rotation errors degrade per target): a failure inside the rotation
\* search for one target gives no rotation for that target only; find-swap
\* goes on with the remaining targets of the list and does not end the
\* request with an error.
C22_RotationErrorsDegrade ==
    [][\A c \in Clients :
          (RotationFails(c) /\ inflight'[c].pc # inflight[c].pc) => GoesOn(c)]_vars

\* a request is at the partner query of a later target after the rotation
\* search of the target before it has failed
C22_Witness ==
    \E c \in Clients :
        /\ Running(c, "find-swap", "partners")
        /\ inflight[c].idx > 1
        /\ UserDesiredThrows(inflight[c].cu)


\* ----------------------------------------------------------------- C23
\* target t yields a direct partner or a rotation for the requester
\* (TargetList is the list the handler iterates)
TargetYields(t) ==
    \/ DirectPartner(DirectSwapPartnersQuery(pool, rows, t, response.user,
                                             Requester.batch),
                     Requester.cur) # NoRow
    \/ FindMultiStepSwap(pool, rows, Requester.cur, t, response.user,
                         Requester.batch) # <<>>

\* the requester has a cohort, the target list can be read, and no target
\* of it other than the requester's own section yields anything
C23_Case ==
    /\ response.op = "find-swap"
    /\ Requester.batch # NoBatch
    /\ ~SectionsToSearchThrows(Requester, response.asked)
    /\ \A i \in DOMAIN TargetList :
          TargetList[i] # Requester.cur => ~TargetYields(TargetList[i])

\* C23 (no match is a normal result): when the requester has a cohort and
\* no target of the list yields a direct partner or a rotation (the list
\* may be empty or hold only the requester's section), find-swap answers
\* with the result type none and not with an error.
C23_NoMatchIsNone ==
    C23_Case => response.type = "none"


\* ----------------------------------------------------------------- C24
\* the students a returned plan names besides the requester
PlanStudents ==
    {d.partner.id : d \in ReturnedDirects}
    \cup UNION {{r.path[i].student.id : i \in 2..Len(r.path)} : r \in ReturnedRotations}

\* student b is of another cohort, occupies t and has the requester's
\* section in its desired list
OtherCohortMatch(b, t) ==
    /\ b # response.user
    /\ pool[b].batch # Requester.batch
    /\ pool[b].cur = t
    /\ ListContains(RowOf(pool, b), Requester.cur)

\* C24 (cohort restriction): every partner of a direct plan and every
\* student of a rotation other than the requester has the requester's
\* batch; a student of another cohort is in no plan, also when its section
\* and desires match.
C24_CohortRestriction ==
    IsSearch =>
        \A b \in PlanStudents :
            /\ b \in Students \ {response.user}
            /\ pool[b].batch = Requester.batch

\* a direct plan for target T passes over a student of another cohort who
\* occupies T, desires the requester's section and is stored first
C24_Witness ==
    /\ response.op = "find-swap" /\ response.type = "direct"
    /\ \E b \in Students :
          /\ OtherCohortMatch(b, response.targetSection)
          /\ \E i, j \in DOMAIN rows :
                i < j /\ rows[i] = b /\ rows[j] = response.partner.id


\* ----------------------------------------------------------------- C25
\* the students the rotation search of the requester is given, in the
\* order of the pool query
SearchedStudents ==
    ValidStudents(OtherStudentsQuery(pool, rows, response.user, Requester.batch))

\* the students that satisfy the filter of a position: they occupy from
\* and, where the position has a destination filter, desire to
PositionMatches(from, to) ==
    SelectSeq(SearchedStudents,
              LAMBDA x : x.cur = from /\ (to = NoTarget \/ Includes(x.des, to)))

\* student id is among the first MAX_CANDIDATES of matches
AmongFirst(id, matches) ==
    \E k \in DOMAIN matches : k <= MAX_CANDIDATES /\ matches[k].id = id

\* step i of path is within the cap of its position: the steps into the
\* target and back to the start are filtered by destination, the steps in
\* between by occupancy only
WithinCap(path, i) ==
    LET step == path[i]
        byDestination == i >= Len(path) - 1
    IN  AmongFirst(step.student.id,
                   PositionMatches(step.from, IF byDestination THEN step.to ELSE NoTarget))

\* C25 (breadth cap): at every position of the rotation search only the
\* first 5 students in pool order that satisfy the position's filter are
\* explored: every student of a returned rotation other than the
\* requester is among the first 5 matches of its position, so no chain is
\* returned that is valid only through a student ranked 6th or later.
C25_BreadthCap ==
    IsSearch =>
        \A r \in ReturnedRotations :
            \A i \in 2..Len(r.path) : WithinCap(r.path, i)

\* a rotation is returned while more than 5 students satisfy the filter of
\* one of its positions
C25_Witness ==
    /\ IsSearch
    /\ \E r \in ReturnedRotations :
          /\ Len(PositionMatches(r.path[2].from, r.path[2].to)) > MAX_CANDIDATES
          /\ WithinCap(r.path, 2)


\* ----------------------------------------------------------------- C26
\* the students of the steps of the returned rotations
StepStudents ==
    UNION {{r.path[i].student.id : i \in DOMAIN r.path} : r \in ReturnedRotations}

\* C26 (only eligible students appear in plans): a student whose stored
\* desired-section data is absent, unparseable, not a list or an empty
\* list is not the partner of a direct plan and not a step student of a
\* rotation.
C26_OnlyEligibleInPlans ==
    IsSearch =>
        /\ \A d \in ReturnedDirects : Eligible(RowOf(pool, d.partner.id))
        /\ \A b \in StepStudents : Eligible(RowOf(pool, b))


\* ----------------------------------------------------------------- C27
\* every participant of the direct plan d moves into a section its stored
\* preference names
DirectGivesDesired(d) ==
    /\ Names(Requester, d.targetSection)
    /\ Names(RowOf(pool, d.partner.id), Requester.cur)

\* every step of the rotation r leads its student into a section its
\* stored preference names
RotationGivesDesired(r) ==
    \A i \in DOMAIN r.path :
        Names(RowOf(pool, r.path[i].student.id), r.path[i].to)

\* C27 (everyone gets a desired section): in every returned plan each
\* participant moves into a section contained in its own desired list (a
\* stored single name equal to the section is counted as containing it):
\* the requester's destination is in the requester's list, and the
\* to-section of every other step is in the list of that step's student.
C27_EveryoneGetsDesired ==
    IsSearch =>
        /\ \A d \in ReturnedDirects : DirectGivesDesired(d)
        /\ \A r \in ReturnedRotations : RotationGivesDesired(r)


\* ----------------------------------------------------------------- C28
\* the students the search is given that occupy t and desire the
\* requester's section, in the order given
BackToStart(t) == PositionMatches(t, Requester.cur)

\* the 2-step chain for target t
TwoStepChain(t) ==
    << Step(Requester.cur, t, Requester, TRUE),
       Step(t, Requester.cur, BackToStart(t)[1], FALSE) >>

AllLists == \A i \in DOMAIN pool : pool[i].des.kind = "list"

\* find-swap has answered on a table whose desired data are all lists
C29_Case == response.op = "find-swap" /\ AllLists

TestEntries ==
    IF response.op = "test-multistep"
    THEN {response.swaps[i] : i \in DOMAIN response.swaps}
    ELSE {}

\* C30 (self-test agreement): in the /api/test-multistep self-test, for
\* every (student, target) pair of its fixture for which directMatch is
\* true the full cycle detection returns a chain too: fullCycle is true.
C30_SelfTestAgreement ==
    \A e \in TestEntries : e.directMatch => e.fullCycle

====
